---------------------------- MODULE Spec2Model ----------------------------
(***************************************************************************)
(* A model of the candle_server crate (src/candle_server/src/main.rs and   *)
(* src/candle_server/src/utils.rs).                                        *)
(*                                                                         *)
(* Strings are sequences of one-character strings, so that rfind, slicing  *)
(* and character classification are computed as the Rust code computes     *)
(* them.  Prices (f64 in the source) are exact rationals [n, d] in lowest  *)
(* terms with d > 0; rounding, infinities and NaN are outside the model.   *)
(***************************************************************************)
EXTENDS Integers, Sequences, FiniteSets, TLC

-----------------------------------------------------------------------------
(* Characters and strings                                                  *)

\* The characters on which char::is_alphanumeric is true, among those used.
Alnum == {"a", "b", "c", "k", "l", "i", "n", "e", "m", "1"}

\* The characters of the regular expression ([()+*/-]) of parse_streams.
SplitChars == {"(", ")", "+", "*", "/", "-"}

\* The characters str::trim removes, among those used.
Whitespace == {" "}

\* The literal "@kline_" of the format! calls.
KlinePrefix == <<"@", "k", "l", "i", "n", "e", "_">>

\* str::rfind(ch): the last index holding ch; 0 stands for None.
RFind(s, ch) ==
    LET hits == {i \in 1..Len(s) : s[i] = ch}
    IN  IF hits = {} THEN 0 ELSE CHOOSE i \in hits : \A j \in hits : j <= i

\* &input[..divider_index]
Before(s, i) == SubSeq(s, 1, i - 1)

\* &input[(divider_index + 1)..]
After(s, i) == SubSeq(s, i + 1, Len(s))

\* format!("@kline_{}", &input[(divider_index + 1)..])
Postfix(s) == KlinePrefix \o After(s, RFind(s, "@"))

-----------------------------------------------------------------------------
(* Tokens                                                                  *)

Operand(sym) == [type |-> "Operand", val |-> sym]
OperatorTok(op) == [type |-> "Operator", val |-> op]
LeftParenthesis == [type |-> "LeftParenthesis", val |-> "("]
RightParenthesis == [type |-> "RightParenthesis", val |-> ")"]

\* impl From<char> for Operator
OperatorFromChar(c) ==
    CASE c = "+" -> "Plus"
      [] c = "-" -> "Minus"
      [] c = "*" -> "Multiply"
      [] c = "/" -> "Divide"
      [] OTHER   -> "NotOperator"

Ok(v) == [tag |-> "Ok", val |-> v]
Err(e) == [tag |-> "Err", val |-> e]
\* Option::unwrap on None: the task unwinds.
Panic == [tag |-> "Panic", val |-> "unwrap"]

-----------------------------------------------------------------------------
(* parse                                                                   *)

\* The body of the `for c in input[..divider_index].chars()` loop: st holds
\* tokens, current_operand and failed (the early return of ParsingStream).
\* ParseChar without the is_alphanumeric test of the last arm.
ParseChar_Unchecked(st, c, postfix) ==
    LET flushed == IF st.current_operand # <<>>
                   THEN Append(st.tokens, Operand(st.current_operand \o postfix))
                   ELSE st.tokens
    IN  CASE c \in {"+", "-", "*", "/"} ->
               [tokens |-> Append(flushed, OperatorTok(OperatorFromChar(c))),
                current_operand |-> <<>>, failed |-> FALSE]
          [] c = "(" ->
               [st EXCEPT !.tokens = Append(st.tokens, LeftParenthesis)]
          [] c = ")" ->
               [tokens |-> Append(flushed, RightParenthesis),
                current_operand |-> <<>>, failed |-> FALSE]
          [] OTHER ->
               [st EXCEPT !.current_operand = Append(st.current_operand, c)]

ParseChar(st, c, postfix) ==
    LET flushed == IF st.current_operand # <<>>
                   THEN Append(st.tokens, Operand(st.current_operand \o postfix))
                   ELSE st.tokens
    IN  CASE c \in {"+", "-", "*", "/"} ->
               [tokens |-> Append(flushed, OperatorTok(OperatorFromChar(c))),
                current_operand |-> <<>>, failed |-> FALSE]
          [] c = "(" ->
               [st EXCEPT !.tokens = Append(st.tokens, LeftParenthesis)]
          [] c = ")" ->
               [tokens |-> Append(flushed, RightParenthesis),
                current_operand |-> <<>>, failed |-> FALSE]
          [] OTHER ->
               IF c \in Alnum
               THEN [st EXCEPT !.current_operand = Append(st.current_operand, c)]
               ELSE [st EXCEPT !.failed = TRUE]

RECURSIVE ParseLoop(_, _, _)
ParseLoop(st, chars, postfix) ==
    IF st.failed \/ chars = <<>> THEN st
    ELSE ParseLoop(ParseChar(st, Head(chars), postfix), Tail(chars), postfix)

parse(input) ==
    LET divider_index == RFind(input, "@")
    IN  IF divider_index = 0 THEN Panic
        ELSE LET postfix == Postfix(input)
                 st == ParseLoop([tokens |-> <<>>, current_operand |-> <<>>,
                                  failed |-> FALSE],
                                 Before(input, divider_index), postfix)
             IN  IF st.failed THEN Err("ParsingStream")
                 ELSE IF st.current_operand # <<>>
                      THEN Ok(Append(st.tokens, Operand(st.current_operand \o postfix)))
                      ELSE Ok(st.tokens)

-----------------------------------------------------------------------------
(* parse_streams                                                           *)

\* Regex::split on a one-character class: the pieces between the matches,
\* empty pieces included.
RECURSIVE SplitLoop(_, _, _)
SplitLoop(chars, cur, acc) ==
    IF chars = <<>> THEN Append(acc, cur)
    ELSE IF Head(chars) \in SplitChars
         THEN SplitLoop(Tail(chars), <<>>, Append(acc, cur))
         ELSE SplitLoop(Tail(chars), Append(cur, Head(chars)), acc)

\* token.trim().is_empty()
TrimIsEmpty(tok) == \A i \in 1..Len(tok) : tok[i] \in Whitespace

parse_streams(input) ==
    LET divider_index == RFind(input, "@")
    IN  IF divider_index = 0 THEN Panic
        ELSE LET postfix == Postfix(input)
                 pieces == SplitLoop(Before(input, divider_index), <<>>, <<>>)
                 kept == SelectSeq(pieces, LAMBDA t : ~TrimIsEmpty(t))
             IN  Ok([i \in 1..Len(kept) |-> kept[i] \o postfix])

-----------------------------------------------------------------------------
(* to_rpn                                                                  *)

\* usize::MAX, the precedence of a token that is no operator and no `(`.
\* It is only ever compared with the precedences 0, 1 and 2, so the largest
\* integer TLC can hold stands for it.
UsizeMax == 2147483647

\* precedence ranking a LeftParenthesis with Plus and Minus.
precedence_ParenthesisAsPlus(t) ==
    CASE t.type = "Operator" ->
            (CASE t.val \in {"Plus", "Minus"}      -> 1
               [] t.val \in {"Multiply", "Divide"} -> 2
               [] OTHER                             -> 0)
      [] t.type = "LeftParenthesis" -> 1
      [] OTHER -> UsizeMax

\* The closure `precedence` of to_rpn.
precedence(t) ==
    CASE t.type = "Operator" ->
            (CASE t.val \in {"Plus", "Minus"}      -> 1
               [] t.val \in {"Multiply", "Divide"} -> 2
               [] OTHER                             -> 0)
      [] t.type = "LeftParenthesis" -> 0
      [] OTHER -> UsizeMax

\* PopOperators popping only operators of strictly higher precedence.
RECURSIVE PopOperators_Strict(_, _, _)
PopOperators_Strict(token, stack, rpn) ==
    IF stack # <<>> /\ precedence(token) < precedence(stack[Len(stack)])
    THEN PopOperators_Strict(token, SubSeq(stack, 1, Len(stack) - 1),
                             Append(rpn, stack[Len(stack)]))
    ELSE [stack |-> stack, rpn |-> rpn]

\* The `while let Some(&last) = stack.last()` loop of the Operator arm.
RECURSIVE PopOperators(_, _, _)
PopOperators(token, stack, rpn) ==
    IF stack # <<>> /\ precedence(token) <= precedence(stack[Len(stack)])
    THEN PopOperators(token, SubSeq(stack, 1, Len(stack) - 1),
                      Append(rpn, stack[Len(stack)]))
    ELSE [stack |-> stack, rpn |-> rpn]

\* The `while let Some(top) = stack.pop()` loop of the RightParenthesis arm.
RECURSIVE PopToParenthesis(_, _)
PopToParenthesis(stack, rpn) ==
    IF stack = <<>> THEN [stack |-> stack, rpn |-> rpn]
    ELSE LET top == stack[Len(stack)]
             rest == SubSeq(stack, 1, Len(stack) - 1)
         IN  IF top.type = "LeftParenthesis" THEN [stack |-> rest, rpn |-> rpn]
             ELSE PopToParenthesis(rest, Append(rpn, top))

\* One iteration of `for token in tokens`: st holds rpn, stack,
\* open_brackets and failed (the early return of ParsingStream).
RpnToken(st, token) ==
    CASE token.type = "Operator" ->
            LET p == PopOperators(token, st.stack, st.rpn)
            IN  [st EXCEPT !.rpn = p.rpn, !.stack = Append(p.stack, token)]
      [] token.type = "LeftParenthesis" ->
            [st EXCEPT !.stack = Append(st.stack, token),
                       !.open_brackets = st.open_brackets + 1]
      [] token.type = "RightParenthesis" ->
            IF st.open_brackets = 0 THEN [st EXCEPT !.failed = TRUE]
            ELSE LET p == PopToParenthesis(st.stack, st.rpn)
                 IN  [st EXCEPT !.rpn = p.rpn, !.stack = p.stack,
                                !.open_brackets = st.open_brackets - 1]
      [] OTHER -> [st EXCEPT !.rpn = Append(st.rpn, token)]

RpnStart == [rpn |-> <<>>, stack |-> <<>>, open_brackets |-> 0, failed |-> FALSE]

\* Vec::reverse, for the final `while let Some(op) = stack.pop()`.
Reverse(s) == [i \in 1..Len(s) |-> s[Len(s) + 1 - i]]

\* What to_rpn returns once the loop has ended in state st.
RpnFinish(st) ==
    IF st.failed \/ st.open_brackets # 0 THEN Err("ParsingStream")
    ELSE Ok(st.rpn \o Reverse(st.stack))

RECURSIVE RpnLoop(_, _)
RpnLoop(st, toks) ==
    IF st.failed \/ toks = <<>> THEN st
    ELSE RpnLoop(RpnToken(st, Head(toks)), Tail(toks))

to_rpn(toks) == RpnFinish(RpnLoop(RpnStart, toks))

\* to_rpn(&parse(&req.stream)?[..])? of process_binance_stream.
Compile(input) ==
    LET p == parse(input)
    IN  IF p.tag = "Ok" THEN to_rpn(p.val) ELSE p


-----------------------------------------------------------------------------
(* Candle algebra                                                          *)

RECURSIVE Gcd(_, _)
Gcd(a, b) == IF b = 0 THEN a ELSE Gcd(b, a % b)

Abs(x) == IF x < 0 THEN -x ELSE x

\* The exact value n/d in lowest terms, d > 0.
Rat(n, d) ==
    LET g == Gcd(Abs(n), Abs(d))
        sgn == IF d < 0 THEN -1 ELSE 1
    IN  [n |-> sgn * (n \div g), d |-> sgn * (d \div g)]

FromInt(i) == [n |-> i, d |-> 1]
Zero == FromInt(0)

RatAdd(x, y) == Rat(x.n * y.d + y.n * x.d, x.d * y.d)
RatSub(x, y) == Rat(x.n * y.d - y.n * x.d, x.d * y.d)
RatMul(x, y) == Rat(x.n * y.n, x.d * y.d)
\* Only used with y # Zero: Candle::div returns before dividing by 0.0.
RatDiv(x, y) == Rat(x.n * y.d, x.d * y.n)

\* Candle { t, o, c, h, l }
Candle(t, o, c, h, l) == [t |-> t, o |-> o, c |-> c, h |-> h, l |-> l]

\* assert_timestamps rejecting only a later left-hand candle.
assert_timestamps_Later(self, other) ==
    IF self.t > other.t THEN Err("MismatchedTimestamps") ELSE Ok("unit")

\* Candle::assert_timestamps
assert_timestamps(self, other) ==
    IF self.t # other.t THEN Err("MismatchedTimestamps") ELSE Ok("unit")

\* Candle::add
add(self, other) ==
    IF assert_timestamps(self, other).tag = "Err"
    THEN assert_timestamps(self, other)
    ELSE Ok(Candle(self.t, RatAdd(self.o, other.o), RatAdd(self.c, other.c),
                   RatAdd(self.h, other.h), RatAdd(self.l, other.l)))

\* Candle::sub
sub(self, other) ==
    IF assert_timestamps(self, other).tag = "Err"
    THEN assert_timestamps(self, other)
    ELSE Ok(Candle(self.t, RatSub(self.o, other.o), RatSub(self.c, other.c),
                   RatSub(self.h, other.h), RatSub(self.l, other.l)))

\* Candle::mul
mul(self, other) ==
    IF assert_timestamps(self, other).tag = "Err"
    THEN assert_timestamps(self, other)
    ELSE Ok(Candle(self.t, RatMul(self.o, other.o), RatMul(self.c, other.c),
                   RatMul(self.h, other.h), RatMul(self.l, other.l)))

\* Candle::div with the timestamp test before the zero test.
div_TimestampsFirst(self, other) ==
    IF assert_timestamps(self, other).tag = "Err"
    THEN assert_timestamps(self, other)
    ELSE IF other.o = Zero \/ other.c = Zero \/ other.h = Zero \/ other.l = Zero
         THEN Err("DivisionByZero")
         ELSE Ok(Candle(self.t, RatDiv(self.o, other.o), RatDiv(self.c, other.c),
                   RatDiv(self.h, other.h), RatDiv(self.l, other.l)))

\* Candle::div: the zero test comes before the timestamp test.
div(self, other) ==
    IF other.o = Zero \/ other.c = Zero \/ other.h = Zero \/ other.l = Zero
    THEN Err("DivisionByZero")
    ELSE IF assert_timestamps(self, other).tag = "Err"
         THEN assert_timestamps(self, other)
         ELSE Ok(Candle(self.t, RatDiv(self.o, other.o), RatDiv(self.c, other.c),
                   RatDiv(self.h, other.h), RatDiv(self.l, other.l)))

\* enum Operation
Operations == {"Add", "Subtract", "Multiply", "Divide"}

perform_operation(a, b, op) ==
    IF a.t # b.t THEN Err("MismatchedTimestamps")
    ELSE CASE op = "Add"      -> add(a, b)
           [] op = "Subtract" -> sub(a, b)
           [] op = "Multiply" -> mul(a, b)
           [] op = "Divide"   -> div(a, b)


-----------------------------------------------------------------------------
(* Bounds and input sets                                                   *)

\* Client sessions the listener accepts.
NumSessions == 2
\* Frames one upstream connection delivers before it goes quiet or ends.
MaxFrames == 2

Sessions == 1..NumSessions
NoSession == 0

\* Request.stream values a client may send.
RequestStreams ==
    { <<"a", "@", "k", "l", "i", "n", "e", "_", "1">>,
      <<"a", "+", "b", "@", "1">>,
      <<"a", "/", "a", "@", "1">>,
      <<"a", "@", "1">>,
      <<"(", "a", "@", "1">>,
      <<"a">> }

\* str::parse::<f64> on the decimal strings the upstream sends; anything
\* else is a ParseFloatError.
ParseF64(str) ==
    CASE str = "0"   -> Ok(FromInt(0))
      [] str = "1"   -> Ok(FromInt(1))
      [] str = "2"   -> Ok(FromInt(2))
      [] str = "4"   -> Ok(FromInt(4))
      [] str = "0.5" -> Ok(Rat(1, 2))
      [] OTHER       -> Err("ParseFloatError")

\* The text frames the upstream may send that deserialize as BinanceMessage
\* (only k.t, k.o, k.c, k.h and k.l are read; the other fields of the frame
\* are left out): two kline start times, a price of zero, and a price that
\* is no decimal.
Kline(t, o, c, h, l) == [kind |-> "kline", t |-> t, o |-> o, c |-> c, h |-> h, l |-> l]
KlineFrames ==
    { Kline(1, "2", "1", "4", "0.5"), Kline(2, "4", "2", "4", "1"),
      Kline(1, "1", "1", "1", "0"), Kline(1, "1", "x", "1", "1") }

\* A frame that does not deserialize as BinanceMessage.
GarbageFrame == [kind |-> "garbage", t |-> 0, o |-> "", c |-> "", h |-> "", l |-> ""]

\* The Ok(data) arm of the drain loop, up to Candle::new: serde_json::from_str
\* and the four kline.*.parse()? calls.
CandleOfFrame(f) ==
    IF f.kind # "kline" THEN Err("Serde")
    ELSE IF \E x \in {f.o, f.c, f.h, f.l} : ParseF64(x).tag = "Err"
         THEN Err("ParseFloatError")
         ELSE Ok(Candle(f.t, ParseF64(f.o).val, ParseF64(f.c).val,
                        ParseF64(f.h).val, ParseF64(f.l).val))


-----------------------------------------------------------------------------
(* State                                                                   *)

VARIABLES
    \* The server (main.rs).  A session is the task serve spawns for one
    \* accepted socket, followed by the task it spawns in turn for
    \* process_binance_stream.
    pc,            \* where each session is suspended
    req,           \* the Request handle_socket returned (its stream)
    skipped,       \* handle_socket has passed over a frame in its read loop
    connections,   \* ServerState.connections: request stream -> upstream
    upstream,      \* the upstream socket each session opened, if any
    writer,        \* holder of the write guard of connections, or NoSession
    readers,       \* holders of a read guard of connections
    rpn_tokens,    \* process_binance_stream: the compiled plan
    idx,           \* position of `for token in rpn_tokens`
    candle_stack,  \* process_binance_stream: candle_stack
    held,          \* the upstream the Operand arm is draining
    received,      \* history: token position, symbol and candle of every push
    outcome,       \* how the session's task ended
    printed,       \* the lines the session's tasks wrote with println!
    clientOut,     \* frames written to the client's socket
    \* One compilation, token by token (utils.rs: parse, to_rpn); input and
    \* result also hold the string argument and the Result of one call of
    \* parse_streams or of close_connection.
    input, expected, phase, tokens, pos, rpn, stack, open_brackets, result,
    \* One call of the candle algebra (utils.rs: Candle, perform_operation).
    lhs, rhs, called, cres

serverVars ==
    <<pc, req, skipped, connections, upstream, writer, readers, rpn_tokens, idx,
      candle_stack, held, received, outcome, printed, clientOut>>
compileVars ==
    <<input, expected, phase, tokens, pos, rpn, stack, open_brackets, result>>
candleVars == <<lhs, rhs, called, cres>>
vars == <<serverVars, compileVars, candleVars>>

Running == [tag |-> "Running", val |-> ""]
NoUpstream == [state |-> "none", params |-> <<>>, delivered |-> 0, ended |-> FALSE]

\* Server::new, with no socket accepted yet.
ServerInit ==
    /\ pc = [s \in Sessions |-> "idle"]
    /\ req = [s \in Sessions |-> <<>>]
    /\ skipped = [s \in Sessions |-> FALSE]
    /\ connections = <<>>
    /\ upstream = [s \in Sessions |-> NoUpstream]
    /\ writer = NoSession
    /\ readers = {}
    /\ rpn_tokens = [s \in Sessions |-> <<>>]
    /\ idx = [s \in Sessions |-> 0]
    /\ candle_stack = [s \in Sessions |-> <<>>]
    /\ held = [s \in Sessions |-> NoSession]
    /\ received = [s \in Sessions |-> <<>>]
    /\ outcome = [s \in Sessions |-> Running]
    /\ printed = [s \in Sessions |-> <<>>]
    /\ clientOut = [s \in Sessions |-> <<>>]

\* No compilation under way.
CompileIdle ==
    /\ input = <<>>
    /\ expected = <<>>
    /\ phase = "idle"
    /\ tokens = <<>>
    /\ pos = 0
    /\ rpn = <<>>
    /\ stack = <<>>
    /\ open_brackets = 0
    /\ result = Running

\* No candle operation under way.
CandleIdle ==
    /\ lhs = Candle(0, Zero, Zero, Zero, Zero)
    /\ rhs = Candle(0, Zero, Zero, Zero, Zero)
    /\ called = [fn |-> "none", op |-> "none"]
    /\ cres = Running

-----------------------------------------------------------------------------
(* The server                                                              *)

\* The task ends with r; an Err is printed by the match arms of serve
\* (lines 161, 166, 168), a panic unwinds the task and prints nothing there.
Return(s, r) ==
    /\ pc' = [pc EXCEPT ![s] = "done"]
    /\ outcome' = [outcome EXCEPT ![s] = r]
    /\ printed' = [printed EXCEPT ![s] =
                      IF r.tag = "Err" THEN Append(@, [kind |-> "error", val |-> r.val])
                      ELSE @]

\* The locals of process_binance_stream are dropped when it returns or unwinds.
DropLocals(s) ==
    /\ rpn_tokens' = [rpn_tokens EXCEPT ![s] = <<>>]
    /\ idx' = [idx EXCEPT ![s] = 0]
    /\ candle_stack' = [candle_stack EXCEPT ![s] = <<>>]
    /\ received' = [received EXCEPT ![s] = <<>>]

\* The s-th iteration of the loop of serve is the next one: every earlier
\* accept returned a socket.
NextAccept(s) ==
    /\ pc[s] = "idle"
    /\ \A j \in Sessions : j < s => pc[j] \notin {"idle", "refused"}

\* Accept with the loop of serve waiting for the sessions it spawned and
\* stopping at the first that failed.
Accept_StopsAtFailure(s) ==
    /\ NextAccept(s)
    /\ \A j \in Sessions : j < s => outcome[j].tag # "Err"
    /\ pc' = [pc EXCEPT ![s] = "handshake"]
    /\ UNCHANGED <<req, skipped, connections, upstream, writer, readers, rpn_tokens,
                   idx, candle_stack, held, received, outcome, printed, clientOut,
                   compileVars, candleVars>>

\* serve: try_socket.accept() returns a socket and the session task is
\* spawned; sessions are numbered in the order the loop accepts them.
Accept(s) ==
    /\ NextAccept(s)
    /\ pc' = [pc EXCEPT ![s] = "handshake"]
    /\ UNCHANGED <<req, skipped, connections, upstream, writer, readers, rpn_tokens,
                   idx, candle_stack, held, received, outcome, printed, clientOut,
                   compileVars, candleVars>>

\* serve: try_socket.accept().await? fails and serve returns the error; no
\* task is spawned for s and the loop accepts no more.
AcceptFails(s) ==
    /\ NextAccept(s)
    /\ pc' = [pc EXCEPT ![s] = "refused"]
    /\ UNCHANGED <<req, skipped, connections, upstream, writer, readers, rpn_tokens,
                   idx, candle_stack, held, received, outcome, printed, clientOut,
                   compileVars, candleVars>>

\* handle_socket: accept_async(socket).await; the write half of the split
\* socket is discarded (`let (_, mut read)`).
Handshake(s) ==
    /\ pc[s] = "handshake"
    /\ \E ok \in BOOLEAN :
          IF ok
          THEN /\ pc' = [pc EXCEPT ![s] = "read"]
               /\ UNCHANGED <<outcome, printed>>
          ELSE Return(s, Err("WebSocketAccept"))
    /\ UNCHANGED <<req, skipped, connections, upstream, writer, readers, rpn_tokens,
                   idx, candle_stack, held, received, clientOut,
                   compileVars, candleVars>>

\* What read.next().await of handle_socket may yield.
ClientMessages ==
    {[kind |-> "text", stream |-> r] : r \in RequestStreams}
      \cup {[kind |-> k, stream |-> <<>>] :
               k \in {"badtext", "close", "other", "error", "none"}}

\* HandleFrame passing over a Close frame as it does over other frames.
HandleFrame_SkipClose(s, m) ==
    /\ pc[s] = "read"
    /\ CASE m.kind = "text" ->
              /\ req' = [req EXCEPT ![s] = m.stream]
              /\ pc' = [pc EXCEPT ![s] = "lock"]
              /\ skipped' = [skipped EXCEPT ![s] = FALSE]
              /\ UNCHANGED <<outcome, printed>>
         [] m.kind = "badtext" ->
              /\ Return(s, Err("Serde"))
              /\ skipped' = [skipped EXCEPT ![s] = FALSE]
              /\ UNCHANGED req
         [] m.kind \in {"other", "close"} ->
              /\ skipped' = [skipped EXCEPT ![s] = TRUE]
              /\ UNCHANGED <<req, pc, outcome, printed>>
         [] OTHER ->
              /\ Return(s, Err("InvalidMessage"))
              /\ skipped' = [skipped EXCEPT ![s] = FALSE]
              /\ UNCHANGED req
    /\ UNCHANGED <<connections, upstream, writer, readers, rpn_tokens, idx,
                   candle_stack, held, received, clientOut,
                   compileVars, candleVars>>

\* handle_socket: the arm of `match message_result` taken for the message m
\* that read.next().await yields ("none" is the end of the stream).
HandleFrame(s, m) ==
    /\ pc[s] = "read"
    /\ CASE m.kind = "text" ->
              /\ req' = [req EXCEPT ![s] = m.stream]
              /\ pc' = [pc EXCEPT ![s] = "lock"]
              /\ skipped' = [skipped EXCEPT ![s] = FALSE]
              /\ UNCHANGED <<outcome, printed>>
         [] m.kind = "badtext" ->
              /\ Return(s, Err("Serde"))
              /\ skipped' = [skipped EXCEPT ![s] = FALSE]
              /\ UNCHANGED req
         [] m.kind = "other" ->
              /\ skipped' = [skipped EXCEPT ![s] = TRUE]
              /\ UNCHANGED <<req, pc, outcome, printed>>
         [] OTHER ->
              /\ Return(s, Err("InvalidMessage"))
              /\ skipped' = [skipped EXCEPT ![s] = FALSE]
              /\ UNCHANGED req
    /\ UNCHANGED <<connections, upstream, writer, readers, rpn_tokens, idx,
                   candle_stack, held, received, clientOut,
                   compileVars, candleVars>>

\* handle_socket: one iteration of `while let Some(message_result)`.
ReadFrame(s) == \E m \in ClientMessages : HandleFrame(s, m)

\* AcquireWrite going on without waiting for the write guard to be free.
AcquireWrite_NoExclusion(s) ==
    /\ pc[s] = "lock"
    /\ IF req[s] \in DOMAIN connections
       THEN /\ pc' = [pc EXCEPT ![s] = "spawn"]
            /\ UNCHANGED writer
       ELSE /\ pc' = [pc EXCEPT ![s] = "connect"]
            /\ writer' = s
    /\ UNCHANGED <<req, skipped, connections, upstream, readers, rpn_tokens, idx,
                   candle_stack, held, received, outcome, printed, clientOut,
                   compileVars, candleVars>>

\* subscribe_to_binance: state.connections.write().await and the
\* contains_key test; a present key returns Ok(()) and drops the guard.
AcquireWrite(s) ==
    /\ pc[s] = "lock"
    /\ writer = NoSession
    /\ readers = {}
    /\ IF req[s] \in DOMAIN connections
       THEN /\ pc' = [pc EXCEPT ![s] = "spawn"]
            /\ UNCHANGED writer
       ELSE /\ pc' = [pc EXCEPT ![s] = "connect"]
            /\ writer' = s
    /\ UNCHANGED <<req, skipped, connections, upstream, readers, rpn_tokens, idx,
                   candle_stack, held, received, outcome, printed, clientOut,
                   compileVars, candleVars>>

\* subscribe_to_binance: connect_websocket().await? under the write guard,
\* then ws_socket.split() and parse_streams(&req.stream), up to the await of
\* send_subscription.
Connect(s) ==
    /\ pc[s] = "connect"
    /\ \E r \in {"ok", "WebSocketTimeout", "WebSocketConnect"} :
          IF r = "ok"
          THEN IF parse_streams(req[s]).tag = "Panic"
               THEN /\ Return(s, Panic)
                    /\ writer' = NoSession
                    /\ upstream' = [upstream EXCEPT ![s].state = "closed"]
               ELSE /\ pc' = [pc EXCEPT ![s] = "send"]
                    /\ upstream' = [upstream EXCEPT ![s].state = "connected"]
                    /\ UNCHANGED <<writer, outcome, printed>>
          ELSE /\ Return(s, Err(r))
               /\ writer' = NoSession
               /\ UNCHANGED upstream
    /\ UNCHANGED <<req, skipped, connections, readers, rpn_tokens, idx,
                   candle_stack, held, received, clientOut,
                   compileVars, candleVars>>

\* SendSubscription with the insert placed before send_subscription.
SendSubscription_InsertFirst(s) ==
    /\ pc[s] = "send"
    /\ connections' = [k \in DOMAIN connections \cup {req[s]} |->
                         IF k = req[s] THEN s ELSE connections[k]]
    /\ \E ok \in BOOLEAN :
          IF ok
          THEN /\ upstream' = [upstream EXCEPT
                                 ![s].state = "subscribed",
                                 ![s].params = parse_streams(req[s]).val]
               /\ pc' = [pc EXCEPT ![s] = "spawn"]
               /\ UNCHANGED <<outcome, printed>>
          ELSE /\ Return(s, Err("WebSocketWrite"))
               /\ upstream' = [upstream EXCEPT ![s].state = "closed"]
    /\ writer' = NoSession
    /\ UNCHANGED <<req, skipped, readers, rpn_tokens, idx, candle_stack, held,
                   received, clientOut,
                   compileVars, candleVars>>

\* subscribe_to_binance: send_subscription(..).await? and the insert.
SendSubscription(s) ==
    /\ pc[s] = "send"
    /\ \E ok \in BOOLEAN :
          IF ok
          THEN /\ upstream' = [upstream EXCEPT
                                 ![s].state = "subscribed",
                                 ![s].params = parse_streams(req[s]).val]
               /\ connections' = [k \in DOMAIN connections \cup {req[s]} |->
                                    IF k = req[s] THEN s ELSE connections[k]]
               /\ pc' = [pc EXCEPT ![s] = "spawn"]
               /\ UNCHANGED <<outcome, printed>>
          ELSE /\ Return(s, Err("WebSocketWrite"))
               /\ upstream' = [upstream EXCEPT ![s].state = "closed"]
               /\ UNCHANGED connections
    /\ writer' = NoSession
    /\ UNCHANGED <<req, skipped, readers, rpn_tokens, idx, candle_stack, held,
                   received, clientOut,
                   compileVars, candleVars>>


\* process_binance_stream returns the error or unwinds with r.
ProcessReturn(s, r) == Return(s, r) /\ DropLocals(s)

\* process_binance_stream, line 178: to_rpn(&parse(&req.stream)?[..])?.
StartProcess(s) ==
    /\ pc[s] = "spawn"
    /\ LET plan == Compile(req[s])
       IN  IF plan.tag = "Ok"
           THEN /\ rpn_tokens' = [rpn_tokens EXCEPT ![s] = plan.val]
                /\ idx' = [idx EXCEPT ![s] = 1]
                /\ pc' = [pc EXCEPT ![s] = "walk"]
                /\ UNCHANGED <<outcome, printed, candle_stack, received>>
           ELSE ProcessReturn(s, plan)
    /\ UNCHANGED <<req, skipped, connections, upstream, writer, readers, held,
                   clientOut, compileVars, candleVars>>

AtToken(s) == pc[s] = "walk" /\ idx[s] <= Len(rpn_tokens[s])
Token(s) == rpn_tokens[s][idx[s]]

\* The Operand arm up to its first await on the socket:
\* state.connections.read().await.get(&symbol).  With the key present the
\* read guard lives until the `if let` ends; with the key absent nothing is
\* pushed and the walk goes on.
LookupOperand(s) ==
    /\ AtToken(s)
    /\ Token(s).type = "Operand"
    /\ writer = NoSession
    /\ IF Token(s).val \in DOMAIN connections
       THEN /\ readers' = readers \cup {s}
            /\ held' = [held EXCEPT ![s] = connections[Token(s).val]]
            /\ pc' = [pc EXCEPT ![s] = "drain"]
            /\ UNCHANGED idx
       ELSE /\ idx' = [idx EXCEPT ![s] = @ + 1]
            /\ UNCHANGED <<readers, held, pc>>
    /\ UNCHANGED <<req, skipped, connections, upstream, writer, rpn_tokens,
                   candle_stack, received, outcome, printed, clientOut,
                   compileVars, candleVars>>

\* What connection.next().await may yield on upstream u: once the stream has
\* ended it stays ended; with nothing buffered and the socket still open the
\* call stays pending.
UpstreamMessages(u) ==
    IF upstream[u].ended THEN {[kind |-> "none", frame |-> GarbageFrame]}
    ELSE {[kind |-> "none", frame |-> GarbageFrame]}
           \cup (IF upstream[u].delivered < MaxFrames
                 THEN {[kind |-> "frame", frame |-> f] :
                          f \in KlineFrames \cup {GarbageFrame}}
                        \cup {[kind |-> "error", frame |-> GarbageFrame]}
                 ELSE {})

\* The read guard of the Operand arm is dropped.
ReleaseRead(s) ==
    /\ readers' = readers \ {s}
    /\ held' = [held EXCEPT ![s] = NoSession]

\* One iteration of `while let Some(message) = connection.next().await`.
Drain(s) ==
    /\ pc[s] = "drain"
    /\ \E m \in UpstreamMessages(held[s]) :
          CASE m.kind = "none" ->
                 /\ upstream' = [upstream EXCEPT ![held[s]].ended = TRUE]
                 /\ ReleaseRead(s)
                 /\ idx' = [idx EXCEPT ![s] = @ + 1]
                 /\ pc' = [pc EXCEPT ![s] = "walk"]
                 /\ UNCHANGED <<rpn_tokens, candle_stack, received, outcome, printed>>
            [] m.kind = "error" ->
                 /\ upstream' = [upstream EXCEPT ![held[s]].delivered = @ + 1]
                 /\ ReleaseRead(s)
                 /\ ProcessReturn(s, Err("WebsocketError"))
            [] m.kind = "frame" ->
                 /\ upstream' = [upstream EXCEPT ![held[s]].delivered = @ + 1]
                 /\ LET parsed == CandleOfFrame(m.frame)
                    IN  IF parsed.tag = "Ok"
                        THEN /\ candle_stack' = [candle_stack EXCEPT
                                                   ![s] = Append(@, parsed.val)]
                             /\ received' = [received EXCEPT
                                   ![s] = Append(@, [at |-> idx[s],
                                                     symbol |-> Token(s).val,
                                                     candle |-> parsed.val])]
                             /\ UNCHANGED <<readers, held, pc, idx, rpn_tokens,
                                            outcome, printed>>
                        ELSE /\ ReleaseRead(s)
                             /\ ProcessReturn(s, parsed)
    /\ UNCHANGED <<req, skipped, connections, writer, clientOut,
                   compileVars, candleVars>>

\* The match on `op` of the Operator arm, applied to lhs and rhs.
ApplyOperator(op, l, r) ==
    CASE op = "Plus"     -> add(l, r)
      [] op = "Minus"    -> sub(l, r)
      [] op = "Multiply" -> mul(l, r)
      [] op = "Divide"   -> div(l, r)
      [] OTHER           -> Err("ParsingStream")

\* The arms of `match token` that do not wait: Token::Operator(op) pops rhs
\* and lhs with unwrap and pushes the result; any other token that is no
\* Operand returns ParsingStream.
WalkToken(s) ==
    /\ AtToken(s)
    /\ Token(s).type # "Operand"
    /\ LET st == candle_stack[s]
           n == Len(st)
       IN  CASE Token(s).type # "Operator" -> ProcessReturn(s, Err("ParsingStream"))
             [] Token(s).type = "Operator" /\ n < 2 -> ProcessReturn(s, Panic)
             [] OTHER ->
                  LET res == ApplyOperator(Token(s).val, st[n - 1], st[n])
                  IN  IF res.tag = "Ok"
                      THEN /\ candle_stack' = [candle_stack EXCEPT
                                 ![s] = Append(SubSeq(st, 1, n - 2), res.val)]
                           /\ idx' = [idx EXCEPT ![s] = @ + 1]
                           /\ UNCHANGED <<pc, outcome, printed, rpn_tokens, received>>
                      ELSE ProcessReturn(s, res)
    /\ UNCHANGED <<req, skipped, connections, upstream, writer, readers, held,
                   clientOut, compileVars, candleVars>>

\* ResultMessage { stream: req.stream.clone(), data: ResultData { .. } }
ResultMessage(stream, candle) ==
    [kind |-> "result", val |-> [stream |-> stream, data |-> candle]]

\* After the for loop: candle_stack.pop().unwrap(), the ResultMessage and
\* println!("{}", result_message); then `break` and Ok(()).
Emit(s) ==
    /\ pc[s] = "walk"
    /\ idx[s] > Len(rpn_tokens[s])
    /\ LET n == Len(candle_stack[s])
       IN  IF n = 0
           THEN ProcessReturn(s, Panic)
           ELSE /\ pc' = [pc EXCEPT ![s] = "done"]
                /\ outcome' = [outcome EXCEPT ![s] = Ok("unit")]
                /\ printed' = [printed EXCEPT
                      ![s] = Append(@, ResultMessage(req[s], candle_stack[s][n]))]
                /\ DropLocals(s)
    /\ UNCHANGED <<req, skipped, connections, upstream, writer, readers, held,
                   clientOut, compileVars, candleVars>>

ServerNext ==
    \E s \in Sessions :
       \/ Accept(s)
       \/ AcceptFails(s)
       \/ Handshake(s)
       \/ ReadFrame(s)
       \/ AcquireWrite(s)
       \/ Connect(s)
       \/ SendSubscription(s)
       \/ StartProcess(s)
       \/ LookupOperand(s)
       \/ Drain(s)
       \/ WalkToken(s)
       \/ Emit(s)

Init == ServerInit /\ CompileIdle /\ CandleIdle
Next == ServerNext
Spec == Init /\ [][Next]_vars


-----------------------------------------------------------------------------
(* One compilation, token by token                                         *)

\* parse(&req.stream)?
ParseInput ==
    /\ phase = "start"
    /\ LET p == parse(input)
       IN  IF p.tag = "Ok"
           THEN /\ tokens' = p.val
                /\ pos' = 1
                /\ phase' = "to_rpn"
                /\ UNCHANGED result
           ELSE /\ result' = p
                /\ phase' = "done"
                /\ UNCHANGED <<tokens, pos>>
    /\ UNCHANGED <<input, expected, rpn, stack, open_brackets, serverVars, candleVars>>

\* to_rpn: one iteration of `for token in tokens`.
RpnStep ==
    /\ phase = "to_rpn"
    /\ pos <= Len(tokens)
    /\ LET st == RpnToken([rpn |-> rpn, stack |-> stack,
                           open_brackets |-> open_brackets, failed |-> FALSE],
                          tokens[pos])
       IN  /\ rpn' = st.rpn
           /\ stack' = st.stack
           /\ open_brackets' = st.open_brackets
           /\ IF st.failed
              THEN /\ result' = Err("ParsingStream")
                   /\ phase' = "done"
                   /\ UNCHANGED pos
              ELSE /\ pos' = pos + 1
                   /\ UNCHANGED <<result, phase>>
    /\ UNCHANGED <<input, expected, tokens, serverVars, candleVars>>

\* to_rpn: after the loop, the open_brackets test and the final pops.
RpnEnd ==
    /\ phase = "to_rpn"
    /\ pos > Len(tokens)
    /\ result' = RpnFinish([rpn |-> rpn, stack |-> stack,
                            open_brackets |-> open_brackets, failed |-> FALSE])
    /\ phase' = "done"
    /\ UNCHANGED <<input, expected, tokens, pos, rpn, stack, open_brackets,
                   serverVars, candleVars>>

CompileNext == ParseInput \/ RpnStep \/ RpnEnd

\* Longest request string drawn character by character.
MaxLen == 5

\* An alphanumeric, two operators of different precedence, the parentheses,
\* the divider, and a character that is none of these.
InputChars == {"a", "+", "*", "(", ")", "@", "#"}

Strings == UNION {[1..k -> InputChars] : k \in 0..MaxLen}

CompileStart ==
    /\ phase = "start"
    /\ tokens = <<>>
    /\ pos = 0
    /\ rpn = <<>>
    /\ stack = <<>>
    /\ open_brackets = 0
    /\ result = Running

\* Any request string over InputChars.
InitCompile ==
    /\ input \in Strings
    /\ expected = <<>>
    /\ CompileStart
    /\ ServerInit
    /\ CandleIdle

SpecCompile == InitCompile /\ [][CompileNext]_vars

-----------------------------------------------------------------------------
(* Well-formed infix expressions and their postfix form                    *)

\* Operands of one expression, and pairs of parentheses in it.
MaxLeaves == 3
MaxParens == 1

\* The names of the operands of a generated expression, used in turn from
\* left to right, so that neighbouring operands differ.
OperandNames == <<<<"a">>, <<"b", "1">>>>
NameAt(k) == OperandNames[((k - 1) % Len(OperandNames)) + 1]

\* The grammar  E -> E (+|-) T | T,  T -> T (*|/) F | F,  F -> x | ( E )
\* with the postfix form of each phrase: E T op, T F op, x, and E.
\* Exprs(n, p) holds the phrases of E with n operands and p pairs of
\* parentheses, as [infix |-> items, postfix |-> items]; the item "x" stands
\* for an operand.
Name == [infix |-> <<"x">>, postfix |-> <<"x">>]
Binary(l, o, r) ==
    [infix |-> l.infix \o <<o>> \o r.infix,
     postfix |-> l.postfix \o r.postfix \o <<o>>]
Parenthesized(e) == [infix |-> <<"(">> \o e.infix \o <<")">>, postfix |-> e.postfix]

RECURSIVE Exprs(_, _), Terms(_, _), Factors(_, _)
Factors(n, p) ==
    (IF n = 1 /\ p = 0 THEN {Name} ELSE {})
      \cup (IF p >= 1 THEN {Parenthesized(e) : e \in Exprs(n, p - 1)} ELSE {})
Terms(n, p) ==
    Factors(n, p)
      \cup UNION {{Binary(l, o, r) : l \in Terms(k, q), o \in {"*", "/"},
                                    r \in Factors(n - k, p - q)} :
                    k \in 1..(n - 1), q \in 0..p}
Exprs(n, p) ==
    Terms(n, p)
      \cup UNION {{Binary(l, o, r) : l \in Exprs(k, q), o \in {"+", "-"},
                                    r \in Terms(n - k, p - q)} :
                    k \in 1..(n - 1), q \in 0..p}

WellFormed == UNION {Exprs(n, p) : n \in 1..MaxLeaves, p \in 0..MaxParens}

\* The interval of the requests built from well-formed expressions.
Interval == <<"1", "m">>

\* The characters of an infix phrase whose next operand is the k-th.
RECURSIVE InfixChars(_, _)
InfixChars(items, k) ==
    IF items = <<>> THEN <<>>
    ELSE IF Head(items) = "x"
         THEN NameAt(k) \o InfixChars(Tail(items), k + 1)
         ELSE <<Head(items)>> \o InfixChars(Tail(items), k)

StandardOperator(ch) ==
    CASE ch = "+" -> "Plus"
      [] ch = "-" -> "Minus"
      [] ch = "*" -> "Multiply"
      [] ch = "/" -> "Divide"

\* The postfix form as tokens, each name carrying @kline_<interval>; the
\* operands of a postfix form stand in the order of the infix form.
RECURSIVE PostfixTokens(_, _, _)
PostfixTokens(items, k, interval) ==
    IF items = <<>> THEN <<>>
    ELSE IF Head(items) = "x"
         THEN <<Operand(NameAt(k) \o KlinePrefix \o interval)>>
                 \o PostfixTokens(Tail(items), k + 1, interval)
         ELSE <<OperatorTok(StandardOperator(Head(items)))>>
                 \o PostfixTokens(Tail(items), k, interval)

\* A request E@I with E well-formed.
InitInfix ==
    /\ \E e \in WellFormed :
          /\ input = InfixChars(e.infix, 1) \o <<"@">> \o Interval
          /\ expected = PostfixTokens(e.postfix, 1, Interval)
    /\ CompileStart
    /\ ServerInit
    /\ CandleIdle

SpecInfix == InitInfix /\ [][CompileNext]_vars

-----------------------------------------------------------------------------
(* One call of the candle algebra                                          *)

\* Kline start times 1..MaxTime and prices 0..MaxPrice.
MaxTime == 2
MaxPrice == 1

Candles ==
    { Candle(t, FromInt(o), FromInt(c), FromInt(h), FromInt(l)) :
        t \in 1..MaxTime, o \in 0..MaxPrice, c \in 0..MaxPrice,
        h \in 0..MaxPrice, l \in 0..MaxPrice }

Calls ==
    {[fn |-> f, op |-> "none"] : f \in {"add", "sub", "mul", "div"}}
      \cup {[fn |-> "perform_operation", op |-> o] : o \in Operations}

CallResult(call, a, b) ==
    CASE call.fn = "add" -> add(a, b)
      [] call.fn = "sub" -> sub(a, b)
      [] call.fn = "mul" -> mul(a, b)
      [] call.fn = "div" -> div(a, b)
      [] call.fn = "perform_operation" -> perform_operation(a, b, call.op)

NoCall == [fn |-> "none", op |-> "none"]

CallDirect ==
    /\ called = NoCall
    /\ \E call \in Calls :
          /\ call.fn # "perform_operation"
          /\ called' = call
          /\ cres' = CallResult(call, lhs, rhs)
    /\ UNCHANGED <<lhs, rhs, serverVars, compileVars>>

CallPerformOperation ==
    /\ called = NoCall
    /\ \E call \in Calls :
          /\ call.fn = "perform_operation"
          /\ called' = call
          /\ cres' = CallResult(call, lhs, rhs)
    /\ UNCHANGED <<lhs, rhs, serverVars, compileVars>>

CandleNext == CallDirect \/ CallPerformOperation

InitCandle ==
    /\ lhs \in Candles
    /\ rhs \in Candles
    /\ called = NoCall
    /\ cres = Running
    /\ ServerInit
    /\ CompileIdle

SpecCandle == InitCandle /\ [][CandleNext]_vars


-----------------------------------------------------------------------------
(* Properties of the server                                                *)

\* The Result r is Err(e).
IsErr(r, e) == r.tag = "Err" /\ r.val = e

Subscribed(u) == upstream[u].state = "subscribed"
ParamsOf(u) == {upstream[u].params[i] : i \in 1..Len(upstream[u].params)}

\* C1: for each upstream stream identifier, at most one open upstream
\* connection has it among the params of its SUBSCRIBE frame, also when two
\* different client expressions share an operand.
C1_OneUpstreamPerStream ==
    \A u, v \in Sessions :
        (u # v /\ Subscribed(u) /\ Subscribed(v)) => ParamsOf(u) \cap ParamsOf(v) = {}

Results(lines) == SelectSeq(lines, LAMBDA ln : ln.kind = "result")
ResultTimes(lines) == [i \in 1..Len(Results(lines)) |-> Results(lines)[i].val.data.t]

OperandPositions(s) ==
    {i \in 1..Len(rpn_tokens[s]) : rpn_tokens[s][i].type = "Operand"}
OperandSymbols(s) == {rpn_tokens[s][i].val : i \in OperandPositions(s)}
\* The kline start times of the candles session s has read for a symbol.
TimesOf(s, sym) ==
    {received[s][k].candle.t :
        k \in {j \in 1..Len(received[s]) : received[s][j].symbol = sym}}
\* The start times present in the sequence of every operand of the plan.
CommonTimes(s) ==
    {t \in UNION {TimesOf(s, sym) : sym \in OperandSymbols(s)} :
        \A sym \in OperandSymbols(s) : t \in TimesOf(s, sym)}

\* The candles session s has read for a symbol, in the order read.
SequenceOf(s, sym) == SelectSeq(received[s], LAMBDA e : e.symbol = sym)
\* Each operand's sequence has non-decreasing start times.
NonDecreasing(s) ==
    \A sym \in OperandSymbols(s) :
       \A i, j \in 1..Len(SequenceOf(s, sym)) :
          i < j => SequenceOf(s, sym)[i].candle.t <= SequenceOf(s, sym)[j].candle.t

RECURSIVE Ascending(_)
Ascending(S) ==
    IF S = {} THEN <<>>
    ELSE LET m == CHOOSE x \in S : \A y \in S : x <= y
         IN  <<m>> \o Ascending(S \ {m})

\* C2: an evaluator that has read its operands' candle sequences, each with
\* non-decreasing start times, and returned has emitted exactly one result
\* for each start time present in the sequences of all its operands, in
\* ascending order, and no other.
C2_OneResultPerCommonTime ==
    [][\A s \in Sessions :
          (pc[s] = "walk" /\ pc'[s] = "done" /\ outcome'[s].tag = "Ok"
             /\ NonDecreasing(s))
             => ResultTimes(printed'[s]) = Ascending(CommonTimes(s))]_vars

\* C3: every result the evaluator computes for a client's request is a frame
\* written to that client's socket.
C3_ResultsReachClient ==
    \A s \in Sessions :
       \A i \in 1..Len(printed[s]) :
          printed[s][i].kind = "result"
             => \E j \in 1..Len(clientOut[s]) : clientOut[s][j] = printed[s][i].val

\* The items of an expression: each run of alphanumeric characters is one
\* operand item "x", every other character an item of its own.
RECURSIVE Items(_, _)
Items(str, inName) ==
    IF str = <<>> THEN <<>>
    ELSE IF Head(str) \in Alnum
         THEN (IF inName THEN <<>> ELSE <<"x">>) \o Items(Tail(str), TRUE)
         ELSE <<Head(str)>> \o Items(Tail(str), FALSE)

\* The request is E@I with E a well-formed expression.
WellFormedRequest(r) ==
    /\ RFind(r, "@") > 0
    /\ \E e \in WellFormed : e.infix = Items(Before(r, RFind(r, "@")), FALSE)

\* The upstream of every operand of the plan has supplied one candle for
\* each Operand token that names it.
Supplied(s) ==
    \A sym \in OperandSymbols(s) :
       Len(SequenceOf(s, sym))
          = Cardinality({i \in OperandPositions(s) : rpn_tokens[s][i].val = sym})

PushesAt(s, i) == Cardinality({k \in 1..Len(received[s]) : received[s][k].at = i})

\* C4: for the plan of a well-formed expression whose operands' upstreams
\* supplied a candle for each Operand token, the RPN pass has pushed exactly
\* one candle per Operand token and exactly one candle is on the stack after
\* the final token.
C4_OneCandleRemains ==
    \A s \in Sessions :
       (/\ pc[s] = "walk"
        /\ idx[s] > Len(rpn_tokens[s])
        /\ WellFormedRequest(req[s])
        /\ Supplied(s))
          => /\ \A i \in OperandPositions(s) : PushesAt(s, i) = 1
             /\ Len(candle_stack[s]) = 1

\* Session s takes a step of its RPN walk.
StepOf(s) == pc'[s] # pc[s] \/ idx'[s] # idx[s]

HasZeroField(c) == Zero \in {c.o, c.c, c.h, c.l}

\* The walk of s is at a Divide token whose right-hand candle has a zero field.
DivideByZeroAt(s) ==
    /\ AtToken(s)
    /\ Token(s) = OperatorTok("Divide")
    /\ Len(candle_stack[s]) >= 2
    /\ HasZeroField(candle_stack[s][Len(candle_stack[s])])

\* C9: a Divide applied to a right-hand candle with a zero field makes
\* Candle::div fail with DivisionByZero, and the evaluator that applied it
\* emits no result and ends with DivisionByZero.
C9_DivisionByZero ==
    [][\A s \in Sessions :
          (DivideByZeroAt(s) /\ StepOf(s))
             => /\ IsErr(div(candle_stack[s][Len(candle_stack[s]) - 1],
                             candle_stack[s][Len(candle_stack[s])]),
                         "DivisionByZero")
                /\ pc'[s] = "done"
                /\ IsErr(outcome'[s], "DivisionByZero")
                /\ Results(printed'[s]) = <<>>]_vars

\* An evaluator has ended with DivisionByZero.
C9_Witness == \E s \in Sessions : IsErr(outcome[s], "DivisionByZero")

\* C10: an Operator token met with fewer than two candles on the stack makes
\* the evaluator return ParsingStream.
C10_UnderflowIsParsingStream ==
    [][\A s \in Sessions :
          (AtToken(s) /\ Token(s).type = "Operator" /\ Len(candle_stack[s]) < 2
             /\ StepOf(s))
             => (pc'[s] = "done" /\ IsErr(outcome'[s], "ParsingStream"))]_vars

-----------------------------------------------------------------------------
(* Properties of the compiler                                              *)

\* C5: a well-formed infix expression compiles to its standard postfix form:
\* * and / bind tighter than + and -, parentheses override precedence, and
\* operators of equal precedence associate to the left.
C5_StandardPostfix ==
    phase = "done" => (result.tag = "Ok" /\ result.val = expected)

\* a-b1-a@1m has compiled to  a b1 - a -.
C5_Witness ==
    /\ phase = "done"
    /\ input = <<"a", "-", "b", "1", "-", "a", "@", "1", "m">>
    /\ result.tag = "Ok"
    /\ Len(result.val) = 5
    /\ result.val[3] = OperatorTok("Minus")
    /\ result.val[5] = OperatorTok("Minus")

ParseOk == pos > 0
\* The text after the last `@` of a string that holds one.
IntervalOf(str) ==
    LET last == CHOOSE i \in 1..Len(str) :
                   str[i] = "@" /\ \A j \in (i + 1)..Len(str) : str[j] # "@"
    IN  SubSeq(str, last + 1, Len(str))
ExpressionChars == {"+", "-", "*", "/", "(", ")"}
HasExpressionChar(str) == \E i \in 1..Len(str) : str[i] \in ExpressionChars
\* A non-empty alphanumeric symbol followed by exactly @kline_<interval>.
IsSuffixedSymbol(str, interval) ==
    \E k \in 1..Len(str) :
       /\ \A i \in 1..k : str[i] \in Alnum
       /\ SubSeq(str, k + 1, Len(str)) = KlinePrefix \o interval
OperandsOf(toks) == {toks[i].val : i \in {j \in 1..Len(toks) : toks[j].type = "Operand"}}
\* The Operand tokens of the parse output and of the to_rpn output so far.
OperandsSeen ==
    OperandsOf(tokens) \cup OperandsOf(rpn)
      \cup (IF phase = "done" /\ result.tag = "Ok" THEN OperandsOf(result.val) ELSE {})

\* C6 as stated: after a successful parse every Operand token is a non-empty
\* alphanumeric symbol followed by @kline_<interval>, and no Operand token
\* contains any of + - * / ( ).
C6_NoExpressionCharInOperand ==
    ParseOk => \A v \in OperandsSeen :
                  IsSuffixedSymbol(v, IntervalOf(input)) /\ ~HasExpressionChar(v)

\* C6 as amended: after a successful parse every Operand token is a non-empty
\* alphanumeric symbol followed by @kline_<interval>; it contains one of
\* + - * / ( ) exactly when the interval does.
C6_OperandSuffix ==
    ParseOk => \A v \in OperandsSeen :
                  /\ IsSuffixedSymbol(v, IntervalOf(input))
                  /\ HasExpressionChar(v) <=> HasExpressionChar(IntervalOf(input))

\* A plan with an operand has been compiled from a request whose interval
\* holds an expression character.
C6_Witness ==
    /\ phase = "done"
    /\ result.tag = "Ok"
    /\ OperandsOf(result.val) # {}
    /\ HasExpressionChar(IntervalOf(input))

\* The expression of a request: the text before the last `@`, or all of it.
ExpressionOf(str) ==
    IF RFind(str, "@") = 0 THEN str ELSE Before(str, RFind(str, "@"))
Count(str, ch) == Cardinality({i \in 1..Len(str) : str[i] = ch})
\* A `)` with no earlier unmatched `(`, or a `(` that is never closed.
Unbalanced(str) ==
    \/ \E i \in 1..Len(str) :
          Count(SubSeq(str, 1, i), ")") > Count(SubSeq(str, 1, i), "(")
    \/ Count(str, "(") # Count(str, ")")

\* C7: compiling a request whose parentheses are unbalanced fails with
\* ParsingStream.
C7_UnbalancedRejected ==
    (phase = "done" /\ Unbalanced(ExpressionOf(input))) => IsErr(result, "ParsingStream")

-----------------------------------------------------------------------------
(* Properties of the candle algebra                                        *)

Called == called # NoCall

\* C8 as stated: each of add, sub, mul, div and perform_operation fails with
\* MismatchedTimestamps whenever the two candles differ in t.
C8_MismatchAlways ==
    (Called /\ lhs.t # rhs.t) => IsErr(cres, "MismatchedTimestamps")

\* C8 as amended: with candles that differ in t, add, sub, mul and
\* perform_operation fail with MismatchedTimestamps; Candle::div does so when
\* no field of the right-hand candle is zero, and fails with DivisionByZero
\* when one is.
C8_MismatchUnlessDivByZero ==
    (Called /\ lhs.t # rhs.t)
       => IF called.fn = "div" /\ HasZeroField(rhs)
          THEN IsErr(cres, "DivisionByZero")
          ELSE IsErr(cres, "MismatchedTimestamps")

\* perform_operation was called with Divide on candles that differ in t, the
\* right-hand one with a zero field, and failed with MismatchedTimestamps.
C8_Witness ==
    /\ Called
    /\ called.fn = "perform_operation"
    /\ called.op = "Divide"
    /\ lhs.t # rhs.t
    /\ HasZeroField(rhs)
    /\ IsErr(cres, "MismatchedTimestamps")

-----------------------------------------------------------------------------
(* Properties of the registry and of the sessions                          *)

\* C11: an entry of the registry that no live evaluator depends on is removed
\* and its upstream closed: once every session and every evaluator has
\* terminated, the registry holds no entry and no upstream is subscribed.
C11_ReleasedOnTermination ==
    (\A s \in Sessions : pc[s] = "done")
       => (DOMAIN connections = {} /\ \A u \in Sessions : ~Subscribed(u))

SubscribeFailures == {"WebSocketTimeout", "WebSocketConnect", "WebSocketWrite"}

\* C12: subscribe_to_binance fails with WebSocketTimeout or WebSocketConnect
\* from the upstream connect and with WebSocketWrite from the send of the
\* SUBSCRIBE frame; in each case the registry is what it was before and the
\* write guard, held until then, is released.
C12_FailedSubscribeKeepsRegistry ==
    [][\A s \in Sessions :
          (pc[s] \in {"connect", "send"} /\ pc'[s] = "done" /\ outcome'[s].tag = "Err")
             => /\ outcome'[s].val \in SubscribeFailures
                /\ (outcome'[s].val = "WebSocketWrite") <=> (pc[s] = "send")
                /\ connections' = connections
                /\ writer = s
                /\ writer' = NoSession]_vars

\* A send of the SUBSCRIBE frame has failed while the registry held another
\* request's entry; the failed request has no entry and the guard is free.
C12_Witness ==
    \E s \in Sessions :
       /\ IsErr(outcome[s], "WebSocketWrite")
       /\ DOMAIN connections # {}
       /\ req[s] \notin DOMAIN connections
       /\ writer = NoSession

\* Session s has no upstream and no entry of the registry is its own.
NoSubscription(s) ==
    /\ upstream[s] = NoUpstream
    /\ \A k \in DOMAIN connections : connections[k] # s

\* C13: handle_socket passes over a frame that is neither text nor Close and
\* goes on reading, takes a text frame as the request, and on a Close frame
\* or the end of the stream ends the session at once with a failure; a
\* session ended that way has made no upstream subscription.
C13_FirstTextFrame ==
    [][\A s \in Sessions :
          /\ pc[s] = "read"
                => \A m \in ClientMessages :
                      HandleFrame(s, m)
                         => /\ m.kind = "other"
                               => /\ pc'[s] = "read"
                                  /\ outcome'[s] = Running
                                  /\ UNCHANGED <<req, upstream, connections>>
                            /\ m.kind = "text"
                               => /\ pc'[s] = "lock"
                                  /\ req'[s] = m.stream
                            /\ m.kind \in {"close", "none"}
                               => /\ pc'[s] = "done"
                                  /\ IsErr(outcome'[s], "InvalidMessage")
                                  /\ UNCHANGED <<upstream, connections>>
          /\ IsErr(outcome'[s], "InvalidMessage") => NoSubscription(s)']_vars

\* One session has ended with the failure and without a subscription while
\* another, having passed over a frame, is still reading.
C13_Witness ==
    \E s, r \in Sessions :
       /\ IsErr(outcome[s], "InvalidMessage")
       /\ NoSubscription(s)
       /\ pc[r] = "read"
       /\ skipped[r]

\* The text frame of session s did not parse as a Request: handle_socket
\* returned the serde error before any request was taken.
BadRequest(s) == pc[s] = "done" /\ IsErr(outcome[s], "Serde") /\ req[s] = <<>>

\* C14: a session whose first text frame does not parse as a request has
\* sent a failure record to its client.
C14_FailureRecordSent ==
    \A s \in Sessions : BadRequest(s) => clientOut[s] # <<>>

-----------------------------------------------------------------------------
(* parse_streams applied to any request string                             *)

\* subscribe_to_binance, line 77: params: parse_streams(&req.stream).
CallParseStreams ==
    /\ phase = "start"
    /\ result' = parse_streams(input)
    /\ phase' = "streams"
    /\ UNCHANGED <<input, expected, tokens, pos, rpn, stack, open_brackets,
                   serverVars, candleVars>>

SpecStreams == InitCompile /\ [][CallParseStreams]_vars

\* The values of the Operand tokens of a token list, in order.
OperandSeq(toks) ==
    LET ops == SelectSeq(toks, LAMBDA tk : tk.type = "Operand")
    IN  [i \in 1..Len(ops) |-> ops[i].val]

\* C15: for a request on which parse and to_rpn succeed, the identifiers
\* parse_streams returns for the SUBSCRIBE params are the Operand tokens of
\* the compiled plan, in the same order.
C15_ParamsAreOperands ==
    (phase = "streams" /\ Compile(input).tag = "Ok")
       => (result.tag = "Ok" /\ result.val = OperandSeq(Compile(input).val))

\* C16: the list parse_streams returns for a request with a well-formed
\* expression holds each identifier exactly once.
C16_ParamsDistinct ==
    (phase = "streams" /\ WellFormedRequest(input) /\ result.tag = "Ok")
       => \A i, j \in 1..Len(result.val) : i # j => result.val[i] # result.val[j]

-----------------------------------------------------------------------------
(* close_connection called on the running server                           *)

\* The keys close_connection is called with.
CloseKeys == RequestStreams

\* The registry without the entry of key.
Removed(key) == [k \in DOMAIN connections \ {key} |-> connections[k]]

\* close_connection without the test of what remove returned.
CloseConnection_AlwaysOk(key) ==
    /\ phase = "idle"
    /\ writer = NoSession
    /\ readers = {}
    /\ input' = key
    /\ phase' = "closed"
    /\ connections' = Removed(key)
    /\ upstream' = [u \in Sessions |->
                      IF key \in DOMAIN connections /\ connections[key] = u
                      THEN [upstream[u] EXCEPT !.state = "closed"]
                      ELSE upstream[u]]
    /\ result' = Ok("unit")
    /\ UNCHANGED <<pc, req, skipped, writer, readers, rpn_tokens, idx,
                   candle_stack, held, received, outcome, printed, clientOut,
                   expected, tokens, pos, rpn, stack, open_brackets, candleVars>>

\* close_connection: the write guard is taken and dropped within the call;
\* remove(&key) yields the read half of the upstream, which is dropped, or
\* None.
CloseConnection(key) ==
    /\ phase = "idle"
    /\ writer = NoSession
    /\ readers = {}
    /\ input' = key
    /\ phase' = "closed"
    /\ IF key \in DOMAIN connections
       THEN /\ connections' = Removed(key)
            /\ upstream' = [upstream EXCEPT ![connections[key]].state = "closed"]
            /\ result' = Ok("unit")
       ELSE /\ UNCHANGED <<connections, upstream>>
            /\ result' = Err("KeyNotFound")
    /\ UNCHANGED <<pc, req, skipped, writer, readers, rpn_tokens, idx,
                   candle_stack, held, received, outcome, printed, clientOut,
                   expected, tokens, pos, rpn, stack, open_brackets, candleVars>>

CloseCall == \E key \in CloseKeys : CloseConnection(key)

NextClose == ServerNext \/ CloseCall

SpecClose == Init /\ [][NextClose]_vars

\* C17: close_connection with a key that is not in the registry returns
\* KeyNotFound and leaves the registry as it was; with a key that is present
\* it returns Ok and removes that entry and no other.
C17_CloseConnection ==
    [][phase' = "closed" /\ phase = "idle"
          => IF input' \in DOMAIN connections
             THEN /\ result' = Ok("unit")
                  /\ DOMAIN connections' = DOMAIN connections \ {input'}
                  /\ \A k \in DOMAIN connections' : connections'[k] = connections[k]
             ELSE /\ IsErr(result', "KeyNotFound")
                  /\ connections' = connections]_vars

\* A present key has been closed and another entry is still in the registry.
C17_Witness ==
    /\ phase = "closed"
    /\ result = Ok("unit")
    /\ input \notin DOMAIN connections
    /\ DOMAIN connections # {}

-----------------------------------------------------------------------------
(* Properties of locking, of the order of compilation, and of tokenization *)

\* C18: no task is suspended on network I/O with a guard of the registry
\* lock: not in the upstream connect or the send of the SUBSCRIBE frame with
\* the write guard, not in the wait for an upstream frame with a read guard.
C18_NoGuardAcrossIO ==
    \A s \in Sessions :
       /\ pc[s] \in {"connect", "send"} => writer # s
       /\ pc[s] = "drain" => s \notin readers

\* Session s has taken a request whose expression fails compilation.
FailsCompilation(s) ==
    /\ pc[s] \notin {"idle", "handshake", "read"}
    /\ req[s] # <<>>
    /\ IsErr(Compile(req[s]), "ParsingStream")

\* C19: for a request whose expression fails compilation no upstream
\* connection is opened, no SUBSCRIBE frame sent and no registry entry made.
C19_CompiledBeforeRegistration ==
    \A s \in Sessions :
       FailsCompilation(s)
          => (upstream[s] = NoUpstream /\ req[s] \notin DOMAIN connections)

\* The maximal runs of characters of str between operators and parentheses.
RECURSIVE Runs(_, _)
Runs(str, cur) ==
    LET done == IF cur = <<>> THEN <<>> ELSE <<cur>>
    IN  IF str = <<>> THEN done
        ELSE IF Head(str) \in ExpressionChars
             THEN done \o Runs(Tail(str), <<>>)
             ELSE Runs(Tail(str), Append(cur, Head(str)))

\* C20: after a successful parse the Operand tokens are, in order, the runs
\* of characters between the operators and parentheses of the expression,
\* each followed by @kline_<interval>: no Operand token holds characters
\* from both sides of an operator, a `(` or a `)`.
C20_OperandsAreRuns ==
    ParseOk
       => LET runs == Runs(ExpressionOf(input), <<>>)
          IN  OperandSeq(tokens)
                 = [i \in 1..Len(runs) |-> runs[i] \o KlinePrefix \o IntervalOf(input)]

-----------------------------------------------------------------------------
(* Compilation returns a value                                             *)

\* C21: for every request string, also one with no `@`, an empty expression
\* or a character that is no operator, parenthesis or alphanumeric,
\* compilation returns a token list or the error ParsingStream.
C21_CompileReturns ==
    phase = "done" => (result.tag = "Ok" \/ IsErr(result, "ParsingStream"))

-----------------------------------------------------------------------------
(* One registry entry per request string                                   *)

\* Session s is inside subscribe_to_binance past the contains_key test, or
\* has an upstream connection open.
HoldsConnection(s) ==
    pc[s] \in {"connect", "send"} \/ upstream[s].state \in {"connected", "subscribed"}

\* No two sessions connect for, or hold an upstream of, the same request
\* string, and every entry of the registry is the subscribed upstream of the
\* session that requested its key.
OnePerKey ==
    /\ \A u \in Sessions :
          HoldsConnection(u)
             => \A v \in Sessions : (u < v /\ HoldsConnection(v)) => req[u] # req[v]
    /\ \A k \in DOMAIN connections :
          Subscribed(connections[k]) /\ req[connections[k]] = k

\* C22: under any interleaving of subscribe_to_binance calls there is at most
\* one upstream connection and one entry per request string; a call that
\* finds its key present returns Ok without opening a connection or sending
\* a SUBSCRIBE frame, and two calls with the same key never both connect.
\* (OnePerKey holds of the empty registry of Init, so stating it of the state
\* after every step states it of every reachable state.)
C22_OneEntryPerKey ==
    [][/\ OnePerKey'
       /\ \A s \in Sessions :
             (pc[s] = "lock" /\ pc'[s] # "lock" /\ req[s] \in DOMAIN connections)
                => /\ pc'[s] = "spawn"
                   /\ outcome'[s] = Running
                   /\ upstream[s] = NoUpstream
                   /\ UNCHANGED <<upstream, connections>>]_vars

\* Two sessions sent the same request string: one holds the subscribed
\* upstream, the other returned from subscribe_to_binance without one.
C22_Witness ==
    \E u, v \in Sessions :
       /\ u # v
       /\ req[u] = req[v]
       /\ Subscribed(u)
       /\ connections[req[u]] = u
       /\ pc[v] = "spawn"
       /\ upstream[v] = NoUpstream

-----------------------------------------------------------------------------
(* to_rpn applied to any token list                                        *)

MaxTokens == 5

\* Two operands, an operator of each precedence, the operator From<char>
\* gives for any other character, and the parentheses.
TokenKinds ==
    {Operand(<<"a">>), Operand(<<"b">>), OperatorTok("Plus"),
     OperatorTok("Multiply"), OperatorTok("NotOperator"),
     LeftParenthesis, RightParenthesis}

TokenLists == UNION {[1..k -> TokenKinds] : k \in 0..MaxTokens}

\* to_rpn entered with any token list.
InitRpn ==
    /\ tokens \in TokenLists
    /\ input = <<>>
    /\ expected = <<>>
    /\ phase = "to_rpn"
    /\ pos = 1
    /\ rpn = <<>>
    /\ stack = <<>>
    /\ open_brackets = 0
    /\ result = Running
    /\ ServerInit
    /\ CandleIdle

RpnNext == RpnStep \/ RpnEnd

SpecRpn == InitRpn /\ [][RpnNext]_vars

CountOf(seq, tk) == Cardinality({i \in 1..Len(seq) : seq[i] = tk})

\* The LeftParenthesis tokens on the operator stack are as many as
\* open_brackets counts.
ParenthesesCounted == CountOf(stack, LeftParenthesis) = open_brackets

\* A successful to_rpn returns no parenthesis, exactly the Operand and
\* Operator tokens of its input, and the operands in their input order.
OutputKeepsTokens ==
    (phase = "done" /\ result.tag = "Ok")
       => /\ \A i \in 1..Len(result.val) :
                result.val[i].type \in {"Operand", "Operator"}
          /\ \A tk \in TokenKinds \ {LeftParenthesis, RightParenthesis} :
                CountOf(result.val, tk) = CountOf(tokens, tk)
          /\ OperandSeq(result.val) = OperandSeq(tokens)

NoNotOperator(toks) ==
    \A i \in 1..Len(toks) : toks[i] # OperatorTok("NotOperator")

Serving == \A s \in Sessions : pc[s] # "refused"

\* The step ends the task of session s with a failure.
FailsIn(s) == pc[s] # "done" /\ pc'[s] = "done" /\ outcome'[s].tag = "Err"

\* The step leaves the task of session r where it was.
Untouched(r) == pc'[r] = pc[r] /\ outcome'[r] = outcome[r]

\* C24: a failure inside one session ends only that session's task: the step
\* in which a session fails changes the position and the outcome of no other
\* session and does not end serve; as long as serve has not returned, its
\* loop accepts the next connection, whatever sessions have failed; and serve
\* returns only in a step in which accepting fails, a step that touches no
\* session task.
C24_FailureEndsOnlyItsSession ==
    [][/\ \A s \in Sessions :
             FailsIn(s) => /\ \A r \in Sessions \ {s} : Untouched(r)
                           /\ Serving => Serving'
       /\ \A s \in Sessions :
             (Serving /\ pc[s] = "idle" /\ \A j \in Sessions : j < s => pc[j] # "idle")
                => ENABLED Accept(s)
       /\ (Serving /\ ~Serving')
             => \E s \in Sessions :
                   /\ pc[s] = "idle" /\ pc'[s] = "refused"
                   /\ \A r \in Sessions \ {s} : Untouched(r)]_vars

\* A session's evaluator has failed, and the loop of serve has accepted the
\* connection after it, whose task stands at its handshake.
C24_Witness ==
    \E s, r \in Sessions :
       /\ s < r
       /\ pc[s] = "done"
       /\ IsErr(outcome[s], "ParsingStream")
       /\ pc[r] = "handshake"
       /\ Serving

=============================================================================
